---- MODULE Spec2Model ----
(***************************************************************************)
(* One webRTCSession (publish or read role) of the WebRTC session          *)
(* subsystem: its run loop, the candidate apply loop it spawns, the        *)
(* OnTrack forwarders, the read-role drain loop, and the HTTP-side callers *)
(* of new() and addCandidates().                                           *)
(*                                                                         *)
(* Go channels of the session are unbuffered.  A select whose cases        *)
(* include <-ctx.Done() can complete a channel rendezvous only while the   *)
(* context is not cancelled: closing the Done channel claims every parked  *)
(* select, and a select entered afterwards finds Done ready while its      *)
(* counterpart is never parked.  A plain send (req.res <- x) completes     *)
(* only when the receiver is waiting in <-req.res.                         *)
(***************************************************************************)
EXTENDS Integers, Sequences, FiniteSets, TLC

\* ---- bounds of the model
NumCallers == 1
MaxCands == 2
MaxTracks == 2
MaxMedias == 2
NumSessions == 2
MaxMsgs == 2
MaxRecordCalls == 2

Callers == 1..NumCallers
TrackIds == 1..MaxTracks
MediaTypes == {"video", "audio", "application", "other"}
TrackTypes == {"audio", "video"}
RoomSessions == 1..NumSessions
\* stream ids given to Room.join
StreamIds == {"cam"}

\* club names, as sequences of characters
ClubNames == {<<"a">>, <<" ", "A", " ", "b">>}

\* data-channel message payloads, as sequences of bytes
Payloads == {<<>>, <<34>>}

\* the session whose data channel is followed
DcSession == 1

\* files under streams/<club>/<event>/, named <session uuid>-<kind>
WriterFiles == RoomSessions \X TrackTypes
MetadataFile == <<DcSession, "metadata">>

VARIABLES
  publish,      \* s.req.publish
  ctxDone,      \* s.ctx is cancelled
  rl,           \* position of the run goroutine (run / runInner / runPublish / runRead)
  ret,          \* (errStatusCode, err) returned by runInner2
  defers,       \* stack of deferred calls of runPublish / runRead
  trackCount,   \* local trackCount of runPublish
  rejected,     \* the media list webrtcTrackCount returned its error for, else <<>>
  pcNew,        \* the local peer connection pc has been created
  pcClosed,     \* pc.Close() was called
  connected,    \* pc.Connected() is closed
  disconnected, \* pc.Disconnected() is closed
  spc,          \* s.pc != nil
  pcAssigns,    \* number of assignments to s.pc
  wuc,          \* result of webrtcWaitUntilConnected ("none" before it returns)
  newc,         \* the caller of new(): [st, res]
  resMsgs,      \* messages delivered on s.req.res, in order
  ac,           \* the callers of addCandidates(): c -> [st, rem, res, at]
  rcst,         \* position of the readRemoteCandidates goroutine
  rcCur,        \* the request (caller) it is serving, 0 if none
  applied,      \* c -> AddICECandidate has been called for c's request
  resSends,     \* c -> number of send statements on c's req.res executed
  handlers,     \* pc.OnTrack / pc.OnDataChannel are installed
  otf,          \* OnTrack callbacks: t -> "none", "blocked" (in its select), "exited"
  tracks,       \* len(tracks): incoming tracks gathered / outgoing tracks built
  started,      \* number of track.start calls made
  writers,      \* s.writers (set of filenames, named by media type)
  ring,         \* read role ring buffer: "none", "open", "closed"
  drain,        \* read role drain goroutine: "none", "running", "exited"
  pathCalls,    \* [addOk, remove, startPub, streamRemove] calls on the Path broker,
                \* and [pause] the pauses after an authentication error
  closeCalls,   \* number of parent.closeSession(s) calls
  wgDone,       \* wg.Done() was called
  recording,    \* r.recording
  clubName,     \* r.clubName
  members,      \* r.sessions
  bySecret,     \* r.sessionsBySecret (a secret stands for its session)
  streamers,    \* keys of r.streamers
  rclosed,      \* s -> s.close() was called by the room
  rwriters,     \* s -> keys of s.writers (by media type)
  disk,         \* files present under streams/
  uploads,      \* UploadObject calls made: [file, bucket, by, rec]
  upl,          \* upload goroutines of cleanup: file -> "none", "spawned", then
                \* "missing" (os.Open failed) or "done"
  cl,           \* position of cleanup: "idle", "sessions", "writers", "returned"
  clCur,        \* the session cleanup is at, 0 if none
  clSeen,       \* keys of clCur's writers map the range loop is past
  fatal,        \* the runtime stopped the process (concurrent map access)
  dc,           \* the data channel of DcSession: "none", "open", "closed"
  meta,         \* bytes of its metadata file
  msgLog,       \* messages handled by OnMessage: [data, rec]
  recordCalls,  \* number of record() calls made
  recordErr,    \* error of CreateBucket's S3 call in the last record()
  recordRet     \* what the last record() returned

sessVars == <<publish, ctxDone, rl, ret, defers, trackCount>>
pcVars == <<pcNew, pcClosed, connected, disconnected, spc, pcAssigns, wuc>>
newVars == <<newc, resMsgs>>
candVars == <<ac, rcst, rcCur, applied, resSends>>
trackVars == <<handlers, otf, tracks, started, writers, ring, drain>>
endVars == <<pathCalls, closeCalls, wgDone>>
roomVars ==
  <<recording, clubName, members, bySecret, streamers, rclosed, rwriters, disk,
    uploads, upl, cl, clCur, clSeen, fatal, dc, meta, msgLog, recordCalls,
    recordErr, recordRet>>
vars == <<sessVars, rejected, pcVars, newVars, candVars, trackVars, endVars, roomVars>>

NoErr == "nil"
NoRet == [code |-> 0, err |-> NoErr]

\* ---- pure helpers

\* webrtcTrackCount that counts the data channel section as a track
RECURSIVE TrackCountFrom_countsData(_, _, _, _, _)
TrackCountFrom_countsData(medias, videoTrack, audioTrack, dataChan, n) ==
  IF medias = <<>> THEN n
  ELSE LET m == Head(medias) IN
    CASE m = "video" ->
           IF videoTrack THEN -1
           ELSE TrackCountFrom_countsData(Tail(medias), TRUE, audioTrack, dataChan, n + 1)
      [] m = "audio" ->
           IF audioTrack THEN -1
           ELSE TrackCountFrom_countsData(Tail(medias), videoTrack, TRUE, dataChan, n + 1)
      [] m = "application" ->
           IF dataChan THEN -1
           ELSE TrackCountFrom_countsData(Tail(medias), videoTrack, audioTrack, TRUE, n + 1)
      [] OTHER -> -1

\* webrtcTrackCount: walks the media descriptors in order; -1 stands for the
\* error return.
RECURSIVE TrackCountFrom(_, _, _, _, _)
TrackCountFrom(medias, videoTrack, audioTrack, dataChan, n) ==
  IF medias = <<>> THEN n
  ELSE LET m == Head(medias) IN
    CASE m = "video" ->
           IF videoTrack THEN -1
           ELSE TrackCountFrom(Tail(medias), TRUE, audioTrack, dataChan, n + 1)
      [] m = "audio" ->
           IF audioTrack THEN -1
           ELSE TrackCountFrom(Tail(medias), videoTrack, TRUE, dataChan, n + 1)
      [] m = "application" ->
           IF dataChan THEN -1
           ELSE TrackCountFrom(Tail(medias), videoTrack, audioTrack, TRUE, n)
      [] OTHER -> -1

webrtcTrackCount(medias) == TrackCountFrom(medias, FALSE, FALSE, FALSE, 0)

Offers == UNION {[1..k -> MediaTypes] : k \in 0..MaxMedias}

\* ---- initial state: the session as newWebRTCSession leaves it.  A roomID
\* that does not parse cancels the context before the run goroutine starts.
\* a room nothing happens in
RoomQuiet ==
  /\ recording = FALSE
  /\ clubName = <<"a">>
  /\ members = {}
  /\ bySecret = {}
  /\ streamers = {}
  /\ rclosed = [x \in RoomSessions |-> FALSE]
  /\ rwriters = [x \in RoomSessions |-> {}]
  /\ disk = {}
  /\ uploads = {}
  /\ upl = [f \in WriterFiles |-> "none"]
  /\ cl = "idle"
  /\ clCur = 0
  /\ clSeen = {}
  /\ fatal = FALSE
  /\ dc = "none"
  /\ meta = <<>>
  /\ msgLog = <<>>
  /\ recordCalls = 0
  /\ recordErr = <<>>
  /\ recordRet = <<>>

Init ==
  /\ publish \in BOOLEAN
  /\ ctxDone \in BOOLEAN
  /\ rl = "start"
  /\ ret = NoRet
  /\ defers = <<>>
  /\ trackCount = 0
  /\ rejected = <<>>
  /\ pcNew = FALSE
  /\ pcClosed = FALSE
  /\ connected = FALSE
  /\ disconnected = FALSE
  /\ spc = FALSE
  /\ pcAssigns = 0
  /\ wuc = "none"
  /\ newc = [st |-> "idle", res |-> "none", code |-> 0]
  /\ resMsgs = <<>>
  /\ ac = [c \in Callers |-> [st |-> "idle", rem |-> 0, res |-> "none", at |-> "none"]]
  /\ rcst = "none"
  /\ rcCur = 0
  /\ applied = [c \in Callers |-> FALSE]
  /\ resSends = [c \in Callers |-> 0]
  /\ handlers = FALSE
  /\ otf = [t \in TrackIds |-> "none"]
  /\ tracks = 0
  /\ started = 0
  /\ writers = {}
  /\ ring = "none"
  /\ drain = "none"
  /\ pathCalls = [addOk |-> 0, remove |-> 0, startPub |-> 0, streamRemove |-> 0,
                  pause |-> 0]
  /\ closeCalls = 0
  /\ wgDone = FALSE
  /\ RoomQuiet

\* a panic in the track-start loop ends the process once the deferred calls
\* of the run goroutine have run: nothing runs after it
crashed == rl = "panic"

\* ---- the run goroutine

\* return (code, err) from runPublish / runRead: its locals are gone and the
\* deferred calls run next
Return(code, err) ==
  /\ ret' = [code |-> code, err |-> err]
  /\ trackCount' = 0
  /\ tracks' = 0
  /\ rl' = "defers"

\* go on in the function body
Goto(to) ==
  /\ rl' = to
  /\ UNCHANGED <<ret, trackCount, tracks>>

\* a call into a collaborator that either succeeds or fails with (code, err)
ExtStep(from, to, code) ==
  /\ rl = from
  /\ \/ Goto(to)
     \/ Return(code, "ext")
  /\ UNCHANGED <<roomVars, rejected, publish, ctxDone, defers, pcVars, newVars, candVars, handlers, otf,
                 started, writers, ring, drain, endVars>>

Push(d) == defers' = Append(defers, d)

\* the first select taking the request from a waiting new() although the
\* context is done
RunInnerSelect_ignoresCtx ==
  /\ rl = "start"
  /\ \/ /\ newc.st = "select"
        /\ newc' = [newc EXCEPT !.st = "wait"]
        /\ rl' = "addPath"
        /\ UNCHANGED ret
     \/ /\ ctxDone
        /\ rl' = "ctxCancel"
        /\ UNCHANGED <<newc, ret>>
  /\ UNCHANGED <<roomVars, rejected, publish, ctxDone, defers, trackCount, pcVars, resMsgs, candVars,
                 trackVars, endVars>>

\* runInner, first select: the request arrives on chNew (rendezvous with
\* new()), or the context is already done and run() goes on without response
RunInnerSelect ==
  /\ rl = "start"
  /\ \/ /\ ~ctxDone
        /\ newc.st = "select"
        /\ newc' = [newc EXCEPT !.st = "wait"]
        /\ rl' = "addPath"
        /\ UNCHANGED ret
     \/ /\ ctxDone
        /\ rl' = "ctxCancel"
        /\ UNCHANGED <<newc, ret>>
  /\ UNCHANGED <<roomVars, rejected, publish, ctxDone, defers, trackCount, pcVars, resMsgs, candVars,
                 trackVars, endVars>>

\* the errors of the Path broker, by what the session looks at: the
\* *errAuthentication type, else the "no one is publishing" message prefix
BrokerErrs == {"auth", "no one is publishing", "other"}

\* pathManager.addPublisher / addReader and the handling of its error
AddPath ==
  /\ rl = "addPath"
  /\ \E e \in {NoErr} \cup BrokerErrs :
       CASE e = NoErr ->
              /\ pathCalls' = [pathCalls EXCEPT !.addOk = @ + 1]
              /\ Push("removePath")
              /\ Goto(IF publish THEN "iceServers" ELSE "gatherOutgoing")
         [] e = "auth" ->
              /\ Goto("authPause")
              /\ UNCHANGED <<defers, pathCalls>>
         [] e = "no one is publishing" /\ ~publish ->
              /\ Return(404, e)
              /\ UNCHANGED <<defers, pathCalls>>
         [] OTHER ->
              /\ Return(400, e)
              /\ UNCHANGED <<defers, pathCalls>>
  /\ UNCHANGED <<roomVars, rejected, publish, ctxDone, pcVars, newVars, candVars,
                 handlers, otf, started, writers, ring, drain, closeCalls, wgDone>>

\* the authentication error answered without the pause
AuthPause_skipped ==
  /\ rl = "authPause"
  /\ Return(401, "auth")
  /\ UNCHANGED <<roomVars, rejected, publish, ctxDone, defers, pcVars, newVars,
                 candVars, handlers, otf, started, writers, ring, drain, endVars>>

\* <-time.After(webrtcPauseAfterAuthError), then 401
AuthPause ==
  /\ rl = "authPause"
  /\ pathCalls' = [pathCalls EXCEPT !.pause = @ + 1]
  /\ Return(401, "auth")
  /\ UNCHANGED <<roomVars, rejected, publish, ctxDone, defers, pcVars, newVars,
                 candVars, handlers, otf, started, writers, ring, drain,
                 closeCalls, wgDone>>

\* read role: webrtcGatherOutgoingTracks(res.stream.Medias())
GatherOutgoing ==
  /\ rl = "gatherOutgoing"
  /\ \/ /\ \E n \in 1..2 : tracks' = n
        /\ rl' = "iceServers"
        /\ UNCHANGED <<ret, trackCount>>
     \/ Return(400, "codec")
  /\ UNCHANGED <<roomVars, rejected, publish, ctxDone, defers, pcVars, newVars, candVars, handlers, otf,
                 started, writers, ring, drain, endVars>>

IceServers == ExtStep("iceServers", "newPC", 500)

\* webrtcpc.New and defer pc.Close()
NewPC ==
  /\ rl = "newPC"
  /\ \/ /\ pcNew' = TRUE
        /\ Push("pcClose")
        /\ Goto(IF publish THEN "unmarshal" ELSE "addTrack")
     \/ /\ Return(400, "ext")
        /\ UNCHANGED <<pcNew, defers>>
  /\ UNCHANGED <<roomVars, rejected, publish, ctxDone, pcClosed, connected, disconnected, spc,
                 pcAssigns, wuc, newVars, candVars, handlers, otf, started,
                 writers, ring, drain, endVars>>

Unmarshal == ExtStep("unmarshal", "trackCount", 400)

\* the webrtcTrackCount error answered with status 500
TrackCountStep_status500 ==
  /\ rl = "trackCount"
  /\ \E offer \in Offers :
       LET n == webrtcTrackCount(offer) IN
         IF n < 0
         THEN /\ Return(500, "sdp")
              /\ rejected' = offer
         ELSE /\ trackCount' = n
              /\ rl' = "transceiverV"
              /\ UNCHANGED <<ret, tracks, rejected>>
  /\ UNCHANGED <<roomVars, publish, ctxDone, defers, pcVars, newVars, candVars, handlers, otf,
                 started, writers, ring, drain, endVars>>

\* trackCount, err := webrtcTrackCount(sdp.MediaDescriptions)
TrackCountStep ==
  /\ rl = "trackCount"
  /\ \E offer \in Offers :
       LET n == webrtcTrackCount(offer) IN
         IF n < 0
         THEN /\ Return(400, "sdp")
              /\ rejected' = offer
         ELSE /\ trackCount' = n
              /\ rl' = "transceiverV"
              /\ UNCHANGED <<ret, tracks, rejected>>
  /\ UNCHANGED <<roomVars, publish, ctxDone, defers, pcVars, newVars, candVars, handlers, otf,
                 started, writers, ring, drain, endVars>>

TransceiverVideo == ExtStep("transceiverV", "transceiverA", 400)

TransceiverAudio == ExtStep("transceiverA", "handlers", 400)

\* pc.OnTrack, findRoomByUUID, pc.OnDataChannel
InstallHandlers ==
  /\ rl = "handlers"
  /\ handlers' = TRUE
  /\ Goto("setRemote")
  /\ UNCHANGED <<roomVars, rejected, publish, ctxDone, defers, pcVars, newVars, candVars, otf,
                 started, writers, ring, drain, endVars>>

\* read role: pc.AddTrack for each outgoing track
AddTrack == ExtStep("addTrack", "setRemote", 400)

SetRemoteDescription == ExtStep("setRemote", "createAnswer", 400)

CreateAnswer == ExtStep("createAnswer", "setLocal", 400)


\* SetLocalDescription followed at once by go s.readRemoteCandidates(pc)
SetLocalDescription_spawnsLoop ==
  /\ rl = "setLocal"
  /\ rcst' = "select"
  /\ rl' = "gathering"
  /\ UNCHANGED <<roomVars, rejected, publish, ctxDone, ret, defers, trackCount, pcVars, newVars, ac,
                 rcCur, applied, resSends, trackVars, endVars>>

SetLocalDescription == ExtStep("setLocal", "gathering", 400)

\* pc.WaitGatheringDone(s.ctx)
WaitGatheringDone ==
  /\ rl = "gathering"
  /\ \/ Goto("writeAnswer")
     \/ /\ ctxDone
        /\ Return(400, "terminated")
  /\ UNCHANGED <<roomVars, rejected, publish, ctxDone, defers, pcVars, newVars, candVars, handlers, otf,
                 started, writers, ring, drain, endVars>>

\* s.req.res <- webRTCNewSessionRes{sx, answer}: received by new()
writeAnswer ==
  /\ rl = "writeAnswer"
  /\ newc.st = "wait"
  /\ resMsgs' = Append(resMsgs, [kind |-> "answer", code |-> 0, err |-> NoErr])
  /\ newc' = [st |-> "done", res |-> "answer", code |-> 0]
  /\ rl' = "spawnRC"
  /\ UNCHANGED <<roomVars, rejected, publish, ctxDone, ret, defers, trackCount, pcVars, candVars,
                 trackVars, endVars>>


\* the spawn of the apply loop followed by a track.start ahead of the wait
SpawnReadRemoteCandidates_startsTrack ==
  /\ rl = "spawnRC"
  /\ rcst' = "select"
  /\ started' = started + 1
  /\ rl' = "wuc"
  /\ UNCHANGED <<roomVars, rejected, publish, ctxDone, ret, defers, trackCount, pcVars, newVars, ac,
                 rcCur, applied, resSends, handlers, otf, tracks, writers,
                 ring, drain, endVars>>

\* go s.readRemoteCandidates(pc)
SpawnReadRemoteCandidates ==
  /\ rl = "spawnRC"
  /\ rcst' = "select"
  /\ rl' = "wuc"
  /\ UNCHANGED <<roomVars, rejected, publish, ctxDone, ret, defers, trackCount, pcVars, newVars, ac,
                 rcCur, applied, resSends, trackVars, endVars>>


\* webrtcWaitUntilConnected whose caller returns the error with a status code
webrtcWaitUntilConnected_status ==
  /\ rl = "wuc"
  /\ \/ /\ wuc' = "deadline"
        /\ Return(400, "deadline exceeded")
     \/ /\ connected
        /\ wuc' = "nil"
        /\ Goto("setPC")
     \/ /\ ctxDone
        /\ wuc' = "terminated"
        /\ Return(400, "terminated")
  /\ UNCHANGED <<roomVars, rejected, publish, ctxDone, defers, pcNew, pcClosed, connected, disconnected,
                 spc, pcAssigns, newVars, candVars, handlers, otf, started,
                 writers, ring, drain, endVars>>

\* webrtcWaitUntilConnected whose caller drops the deadline error
webrtcWaitUntilConnected_ignoresErr ==
  /\ rl = "wuc"
  /\ \/ /\ wuc' = "deadline"
        /\ Goto("setPC")
     \/ /\ connected
        /\ wuc' = "nil"
        /\ Goto("setPC")
     \/ /\ ctxDone
        /\ wuc' = "terminated"
        /\ Return(0, "terminated")
  /\ UNCHANGED <<roomVars, rejected, publish, ctxDone, defers, pcNew, pcClosed, connected, disconnected,
                 spc, pcAssigns, newVars, candVars, handlers, otf, started,
                 writers, ring, drain, endVars>>

\* webrtcWaitUntilConnected: the select picks among the ready cases
webrtcWaitUntilConnected ==
  /\ rl = "wuc"
  /\ \/ /\ wuc' = "deadline"
        /\ Return(0, "deadline exceeded")
     \/ /\ connected
        /\ wuc' = "nil"
        /\ Goto("setPC")
     \/ /\ ctxDone
        /\ wuc' = "terminated"
        /\ Return(0, "terminated")
  /\ UNCHANGED <<roomVars, rejected, publish, ctxDone, defers, pcNew, pcClosed, connected, disconnected,
                 spc, pcAssigns, newVars, candVars, handlers, otf, started,
                 writers, ring, drain, endVars>>

\* s.mutex.Lock(); s.pc = pc; s.mutex.Unlock()
SetPC ==
  /\ rl = "setPC"
  /\ spc' = TRUE
  /\ pcAssigns' = pcAssigns + 1
  /\ rl' = IF publish THEN "gatherTracks" ELSE "ringNew"
  /\ UNCHANGED <<roomVars, rejected, publish, ctxDone, ret, defers, trackCount, pcNew, pcClosed,
                 connected, disconnected, wuc, newVars, candVars, trackVars,
                 endVars>>

\* webrtcGatherIncomingTracks: one iteration of its select loop
webrtcGatherIncomingTracks ==
  /\ rl = "gatherTracks"
  /\ \/ /\ IF trackCount = 0
           THEN Goto("startPublisher")
           ELSE Return(0, "deadline exceeded")
        /\ UNCHANGED otf
     \/ /\ ~ctxDone
        /\ \E t \in TrackIds :
             /\ otf[t] = "blocked"
             /\ otf' = [otf EXCEPT ![t] = "exited"]
             /\ \/ /\ tracks' = tracks + 1
                   /\ rl' = IF tracks + 1 = trackCount THEN "startPublisher" ELSE rl
                   /\ UNCHANGED <<ret, trackCount>>
                \/ Return(0, "codec")
     \/ /\ disconnected
        /\ Return(0, "peer connection closed")
        /\ UNCHANGED otf
     \/ /\ ctxDone
        /\ Return(0, "terminated")
        /\ UNCHANGED otf
  /\ UNCHANGED <<roomVars, rejected, publish, ctxDone, defers, pcVars, newVars, candVars, handlers,
                 started, writers, ring, drain, endVars>>

\* res.path.startPublisher
StartPublisher ==
  /\ rl = "startPublisher"
  /\ \/ /\ pathCalls' = [pathCalls EXCEPT !.startPub = @ + 1]
        /\ Goto("startTracks")
     \/ /\ Return(0, "ext")
        /\ UNCHANGED pathCalls
  /\ UNCHANGED <<roomVars, rejected, publish, ctxDone, defers, pcVars, newVars, candVars, handlers,
                 otf, started, writers, ring, drain, closeCalls, wgDone>>

\* publish role, one iteration of the loop over tracks: by track.mediaType
\* the writer is created (a failure panics) and registered in s.writers under
\* its filename, and the track is started
StartIncomingTrack ==
  /\ rl = "startTracks"
  /\ publish
  /\ \/ /\ started < tracks
        /\ \/ /\ \E k \in TrackTypes : writers' = writers \cup {k}
              /\ started' = started + 1
              /\ rl' = rl
           \/ /\ rl' = "panicking"
              /\ UNCHANGED <<writers, started>>
     \/ /\ started = tracks
        /\ rl' = "final"
        /\ UNCHANGED <<writers, started>>
  /\ UNCHANGED <<roomVars, rejected, publish, ctxDone, ret, defers, trackCount, pcVars, newVars,
                 candVars, handlers, otf, tracks, ring, drain, endVars>>

\* read role: ringbuffer.New and defer ringBuffer.Close()
RingNew ==
  /\ rl = "ringNew"
  /\ ring' = "open"
  /\ Push("ringClose")
  /\ rl' = "startTracks"
  /\ UNCHANGED <<roomVars, rejected, publish, ctxDone, ret, trackCount, pcVars, newVars, candVars,
                 handlers, otf, tracks, started, writers, drain, endVars>>

\* read role, one iteration of the loop over tracks, then
\* defer res.stream.RemoveReader(s)
StartOutgoingTrack ==
  /\ rl = "startTracks"
  /\ ~publish
  /\ \/ /\ started < tracks
        /\ started' = started + 1
        /\ rl' = rl
        /\ UNCHANGED defers
     \/ /\ started = tracks
        /\ Push("streamRemove")
        /\ rl' = "spawnDrain"
        /\ UNCHANGED started
  /\ UNCHANGED <<roomVars, rejected, publish, ctxDone, ret, trackCount, pcVars, newVars, candVars,
                 handlers, otf, tracks, writers, ring, drain, endVars>>

\* read role: go func() { for { ringBuffer.Pull() ... } }()
SpawnDrain ==
  /\ rl = "spawnDrain"
  /\ drain' = "running"
  /\ rl' = "final"
  /\ UNCHANGED <<roomVars, rejected, publish, ctxDone, ret, defers, trackCount, pcVars, newVars,
                 candVars, handlers, otf, tracks, started, writers, ring, endVars>>

\* the final select of runPublish / runRead
FinalSelect ==
  /\ rl = "final"
  /\ \/ /\ disconnected
        /\ Return(0, "peer connection closed")
     \/ /\ ~publish
        /\ Return(0, "write error")
     \/ /\ ctxDone
        /\ Return(0, "terminated")
  /\ UNCHANGED <<roomVars, rejected, publish, ctxDone, defers, pcVars, newVars, candVars, handlers, otf,
                 started, writers, ring, drain, endVars>>

\* ---- the deferred calls, last registered first
TopDefer == IF defers = <<>> THEN "none" ELSE defers[Len(defers)]
Pop == defers' = SubSeq(defers, 1, Len(defers) - 1)

\* the deferred calls run when the function returns and when it panics
Unwinding == rl \in {"defers", "panicking"}

DeferStreamRemoveReader ==
  /\ Unwinding
  /\ TopDefer = "streamRemove"
  /\ Pop
  /\ pathCalls' = [pathCalls EXCEPT !.streamRemove = @ + 1]
  /\ UNCHANGED <<roomVars, rejected, publish, ctxDone, rl, ret, trackCount, pcVars, newVars, candVars,
                 trackVars, closeCalls, wgDone>>

DeferRingClose ==
  /\ Unwinding
  /\ TopDefer = "ringClose"
  /\ Pop
  /\ ring' = "closed"
  /\ UNCHANGED <<roomVars, rejected, publish, ctxDone, rl, ret, trackCount, pcVars, newVars, candVars,
                 handlers, otf, tracks, started, writers, drain, endVars>>


\* pc.Close() that also clears s.pc
DeferPCClose_clearsPC ==
  /\ Unwinding
  /\ TopDefer = "pcClose"
  /\ Pop
  /\ pcClosed' = TRUE
  /\ spc' = FALSE
  /\ UNCHANGED <<roomVars, rejected, publish, ctxDone, rl, ret, trackCount, pcNew, connected,
                 disconnected, pcAssigns, wuc, newVars, candVars, trackVars,
                 endVars>>

DeferPCClose ==
  /\ Unwinding
  /\ TopDefer = "pcClose"
  /\ Pop
  /\ pcClosed' = TRUE
  /\ UNCHANGED <<roomVars, rejected, publish, ctxDone, rl, ret, trackCount, pcNew, connected,
                 disconnected, spc, pcAssigns, wuc, newVars, candVars, trackVars,
                 endVars>>

\* the deferred call dropped without removePublisher / removeReader
DeferRemovePath_dropped ==
  /\ Unwinding
  /\ TopDefer = "removePath"
  /\ Pop
  /\ UNCHANGED <<roomVars, rejected, publish, ctxDone, rl, ret, trackCount, pcVars, newVars, candVars,
                 trackVars, endVars>>

\* the deferred res.path.removePublisher / removeReader
DeferRemovePath ==
  /\ Unwinding
  /\ TopDefer = "removePath"
  /\ Pop
  /\ pathCalls' = [pathCalls EXCEPT !.remove = @ + 1]
  /\ UNCHANGED <<roomVars, rejected, publish, ctxDone, rl, ret, trackCount, pcVars, newVars, candVars,
                 trackVars, closeCalls, wgDone>>

\* the panic of the track-start loop has run the deferred calls of runPublish:
\* the deferred s.wg.Done() of run() runs, then the runtime ends the process
PanicExit ==
  /\ rl = "panicking"
  /\ defers = <<>>
  /\ wgDone' = TRUE
  /\ rl' = "panic"
  /\ UNCHANGED <<roomVars, rejected, publish, ctxDone, ret, defers, trackCount, pcVars, newVars,
                 candVars, trackVars, pathCalls, closeCalls>>

\* runInner after runInner2: the error response, only for a non-zero status;
\* err then goes to run(), which only logs it
RunInnerRespond ==
  /\ rl = "defers"
  /\ defers = <<>>
  /\ \/ /\ ret.code # 0
        /\ newc.st = "wait"
        /\ resMsgs' = Append(resMsgs, [kind |-> "error", code |-> ret.code, err |-> ret.err])
        /\ newc' = [st |-> "done", res |-> ret.err, code |-> ret.code]
     \/ /\ ret.code = 0
        /\ UNCHANGED <<newc, resMsgs>>
  /\ ret' = NoRet
  /\ rl' = "ctxCancel"
  /\ UNCHANGED <<roomVars, rejected, publish, ctxDone, defers, trackCount, pcVars, candVars,
                 trackVars, endVars>>

\* run: s.ctxCancel()
RunCtxCancel ==
  /\ rl = "ctxCancel"
  /\ ctxDone' = TRUE
  /\ rl' = "closeSession"
  /\ UNCHANGED <<roomVars, rejected, publish, ret, defers, trackCount, pcVars, newVars, candVars,
                 trackVars, endVars>>

\* run: s.parent.closeSession(s)
RunCloseSession ==
  /\ rl = "closeSession"
  /\ closeCalls' = closeCalls + 1
  /\ rl' = "wgDone"
  /\ UNCHANGED <<roomVars, rejected, publish, ctxDone, ret, defers, trackCount, pcVars, newVars,
                 candVars, trackVars, pathCalls, wgDone>>

\* run: the log line, then the deferred s.wg.Done()
RunWgDone ==
  /\ rl = "wgDone"
  /\ wgDone' = TRUE
  /\ rl' = "exited"
  /\ UNCHANGED <<roomVars, rejected, publish, ctxDone, ret, defers, trackCount, pcVars, newVars,
                 candVars, trackVars, pathCalls, closeCalls>>

\* s.close(), or the parent context being cancelled
Close ==
  /\ ~crashed
  /\ ~ctxDone
  /\ ctxDone' = TRUE
  /\ UNCHANGED <<roomVars, rejected, publish, rl, ret, defers, trackCount, pcVars, newVars, candVars,
                 trackVars, endVars>>

answered == \E i \in 1..Len(resMsgs) : resMsgs[i].kind = "answer"

\* when a call is made: after the context is cancelled ("late"), else before
\* the answer is emitted ("early"), else "mid"
CallTime == IF ctxDone THEN "late" ELSE IF answered THEN "mid" ELSE "early"

\* ---- the peer connection engine
PeerConnected ==
  /\ ~crashed
  /\ pcNew /\ ~pcClosed /\ ~connected
  /\ answered
  /\ connected' = TRUE
  /\ UNCHANGED <<roomVars, rejected, sessVars, pcNew, pcClosed, disconnected, spc, pcAssigns, wuc,
                 newVars, candVars, trackVars, endVars>>

PeerDisconnected ==
  /\ ~crashed
  /\ pcNew /\ ~pcClosed /\ ~disconnected
  /\ disconnected' = TRUE
  /\ UNCHANGED <<roomVars, rejected, sessVars, pcNew, pcClosed, connected, spc, pcAssigns, wuc,
                 newVars, candVars, trackVars, endVars>>

\* the engine calls the OnTrack callback for an incoming track: the callback
\* enters its select
OnTrack(t) ==
  /\ ~crashed
  /\ handlers /\ connected /\ ~pcClosed
  /\ otf[t] = "none"
  /\ IF t = 1 THEN TRUE ELSE otf[t - 1] # "none"
  /\ otf' = [otf EXCEPT ![t] = "blocked"]
  /\ UNCHANGED <<roomVars, rejected, sessVars, pcVars, newVars, candVars, handlers, tracks, started,
                 writers, ring, drain, endVars>>

\* the OnTrack callback leaves its select by <-s.ctx.Done()
OnTrackCtxDone(t) ==
  /\ ~crashed
  /\ otf[t] = "blocked"
  /\ ctxDone
  /\ otf' = [otf EXCEPT ![t] = "exited"]
  /\ UNCHANGED <<roomVars, rejected, sessVars, pcVars, newVars, candVars, handlers, tracks, started,
                 writers, ring, drain, endVars>>

\* the drain goroutine returns when Pull reports the ring buffer closed
DrainExit ==
  /\ ~crashed
  /\ drain = "running"
  /\ ring = "closed"
  /\ drain' = "exited"
  /\ UNCHANGED <<roomVars, rejected, sessVars, pcVars, newVars, candVars, handlers, otf, tracks,
                 started, writers, ring, endVars>>

\* ---- new(), called by the HTTP server through the manager
NewCall ==
  /\ ~crashed
  /\ newc.st = "idle"
  /\ newc' = [newc EXCEPT !.st = "select"]
  /\ UNCHANGED <<roomVars, rejected, sessVars, pcVars, resMsgs, candVars, trackVars, endVars>>

\* new(): case <-s.ctx.Done()
NewCtxDone ==
  /\ ~crashed
  /\ newc.st = "select"
  /\ ctxDone
  /\ newc' = [st |-> "done", res |-> "terminated", code |-> 500]
  /\ UNCHANGED <<roomVars, rejected, sessVars, pcVars, resMsgs, candVars, trackVars, endVars>>

\* ---- addCandidates(), called by the HTTP server through the manager
AddCandidatesCall(c) ==
  /\ ~crashed
  /\ ac[c].st = "idle"
  /\ IF c = 1 THEN TRUE ELSE ac[c - 1].st # "idle"
  /\ ac' = [ac EXCEPT ![c].st = "select", ![c].at = CallTime]
  /\ UNCHANGED <<roomVars, rejected, sessVars, pcVars, newVars, rcst, rcCur, applied, resSends,
                 trackVars, endVars>>


\* addCandidates() whose ctx.Done case returns an empty (successful) response
AddCandidatesCtxDone_ok(c) ==
  /\ ~crashed
  /\ ac[c].st = "select"
  /\ ctxDone
  /\ ac' = [ac EXCEPT ![c].st = "done", ![c].res = "ok"]
  /\ UNCHANGED <<roomVars, rejected, sessVars, pcVars, newVars, rcst, rcCur, applied, resSends,
                 trackVars, endVars>>

\* addCandidates() without the ctx.Done case
AddCandidatesCtxDone_missing(c) ==
  /\ FALSE
  /\ UNCHANGED vars

\* addCandidates(): case <-s.ctx.Done()
AddCandidatesCtxDone(c) ==
  /\ ~crashed
  /\ ac[c].st = "select"
  /\ ctxDone
  /\ ac' = [ac EXCEPT ![c].st = "done", ![c].res = "terminated"]
  /\ UNCHANGED <<roomVars, rejected, sessVars, pcVars, newVars, rcst, rcCur, applied, resSends,
                 trackVars, endVars>>

\* ---- readRemoteCandidates
\* case req := <-s.chAddCandidates (rendezvous with addCandidates); the
\* request carries a list of n candidates, all of them still to be ranged over
ReadRemoteCandidatesRecv(c) ==
  /\ ~crashed
  /\ rcst = "select"
  /\ ~ctxDone
  /\ ac[c].st = "select"
  /\ \E n \in 0..MaxCands : ac' = [ac EXCEPT ![c].st = "wait", ![c].rem = n]
  /\ rcst' = "apply"
  /\ rcCur' = c
  /\ UNCHANGED <<roomVars, rejected, sessVars, pcVars, newVars, applied, resSends, trackVars, endVars>>


\* the loop over req.candidates stopping one candidate short
ReadRemoteCandidatesApply_skipsLast ==
  /\ ~crashed
  /\ rcst = "apply"
  /\ \/ /\ ac[rcCur].rem > 1
        /\ applied' = [applied EXCEPT ![rcCur] = TRUE]
        /\ \/ /\ ac' = [ac EXCEPT ![rcCur].rem = @ - 1]
              /\ UNCHANGED <<rcst, resSends>>
           \/ /\ rcst' = "sendErr"
              /\ resSends' = [resSends EXCEPT ![rcCur] = @ + 1]
              /\ UNCHANGED ac
     \/ /\ ac[rcCur].rem <= 1
        /\ rcst' = "sendOk"
        /\ resSends' = [resSends EXCEPT ![rcCur] = @ + 1]
        /\ UNCHANGED <<ac, applied>>
  /\ UNCHANGED <<roomVars, rejected, sessVars, pcVars, newVars, rcCur, trackVars, endVars>>

\* one iteration of the loop over req.candidates (pc.AddICECandidate succeeds
\* or fails), or the end of the loop; on either way to a send statement
ReadRemoteCandidatesApply ==
  /\ ~crashed
  /\ rcst = "apply"
  /\ \/ /\ ac[rcCur].rem > 0
        /\ applied' = [applied EXCEPT ![rcCur] = TRUE]
        /\ \/ /\ ac' = [ac EXCEPT ![rcCur].rem = @ - 1]
              /\ UNCHANGED <<rcst, resSends>>
           \/ /\ rcst' = "sendErr"
              /\ resSends' = [resSends EXCEPT ![rcCur] = @ + 1]
              /\ UNCHANGED ac
     \/ /\ ac[rcCur].rem = 0
        /\ rcst' = "sendOk"
        /\ resSends' = [resSends EXCEPT ![rcCur] = @ + 1]
        /\ UNCHANGED <<ac, applied>>
  /\ UNCHANGED <<roomVars, rejected, sessVars, pcVars, newVars, rcCur, trackVars, endVars>>

\* req.res <- webRTCAddSessionCandidatesRes{err: err}, then the loop goes on
ReadRemoteCandidatesSendErr ==
  /\ ~crashed
  /\ rcst = "sendErr"
  /\ ac[rcCur].st = "wait"
  /\ ac' = [ac EXCEPT ![rcCur].st = "done", ![rcCur].res = "candidate error",
                       ![rcCur].rem = @ - 1]
  /\ rcst' = "apply"
  /\ UNCHANGED <<roomVars, rejected, sessVars, pcVars, newVars, rcCur, applied, resSends, trackVars,
                 endVars>>

\* req.res <- webRTCAddSessionCandidatesRes{}
ReadRemoteCandidatesSendOk ==
  /\ ~crashed
  /\ rcst = "sendOk"
  /\ ac[rcCur].st = "wait"
  /\ ac' = [ac EXCEPT ![rcCur].st = "done", ![rcCur].res = "ok"]
  /\ rcst' = "select"
  /\ rcCur' = 0
  /\ UNCHANGED <<roomVars, rejected, sessVars, pcVars, newVars, applied, resSends, trackVars, endVars>>

\* case <-s.ctx.Done(): return
ReadRemoteCandidatesCtxDone ==
  /\ ~crashed
  /\ rcst = "select"
  /\ ctxDone
  /\ rcst' = "exited"
  /\ UNCHANGED <<roomVars, rejected, sessVars, pcVars, newVars, ac, rcCur, applied, resSends,
                 trackVars, endVars>>

\* ---- the system
RunStep ==
  \/ RunInnerSelect \/ AddPath \/ AuthPause \/ GatherOutgoing \/ IceServers
  \/ NewPC \/ Unmarshal \/ TrackCountStep \/ TransceiverVideo \/ TransceiverAudio
  \/ InstallHandlers \/ AddTrack \/ SetRemoteDescription \/ CreateAnswer
  \/ SetLocalDescription \/ WaitGatheringDone \/ writeAnswer
  \/ SpawnReadRemoteCandidates \/ webrtcWaitUntilConnected \/ SetPC
  \/ webrtcGatherIncomingTracks \/ StartPublisher \/ StartIncomingTrack
  \/ RingNew \/ StartOutgoingTrack \/ SpawnDrain \/ FinalSelect
  \/ DeferStreamRemoveReader \/ DeferRingClose \/ DeferPCClose \/ DeferRemovePath
  \/ RunInnerRespond \/ RunCtxCancel \/ RunCloseSession \/ RunWgDone
  \/ PanicExit

ChildStep ==
  \/ \E c \in Callers : ReadRemoteCandidatesRecv(c)
  \/ ReadRemoteCandidatesApply \/ ReadRemoteCandidatesSendErr
  \/ ReadRemoteCandidatesSendOk \/ ReadRemoteCandidatesCtxDone
  \/ \E t \in TrackIds : OnTrackCtxDone(t)
  \/ DrainExit

CallerStep ==
  \/ NewCtxDone
  \/ \E c \in Callers : AddCandidatesCtxDone(c)

EnvStep ==
  \/ Close \/ PeerConnected \/ PeerDisconnected
  \/ \E t \in TrackIds : OnTrack(t)
  \/ NewCall
  \/ \E c \in Callers : AddCandidatesCall(c)

ProgStep == RunStep \/ ChildStep \/ CallerStep

Next ==
  \/ RunInnerSelect \/ AddPath \/ AuthPause \/ GatherOutgoing \/ IceServers
  \/ NewPC \/ Unmarshal \/ TrackCountStep \/ TransceiverVideo \/ TransceiverAudio
  \/ InstallHandlers \/ AddTrack \/ SetRemoteDescription \/ CreateAnswer
  \/ SetLocalDescription \/ WaitGatheringDone \/ writeAnswer
  \/ SpawnReadRemoteCandidates \/ webrtcWaitUntilConnected \/ SetPC
  \/ webrtcGatherIncomingTracks \/ StartPublisher \/ StartIncomingTrack
  \/ RingNew \/ StartOutgoingTrack \/ SpawnDrain \/ FinalSelect
  \/ DeferStreamRemoveReader \/ DeferRingClose \/ DeferPCClose \/ DeferRemovePath
  \/ RunInnerRespond \/ RunCtxCancel \/ RunCloseSession \/ RunWgDone
  \/ PanicExit
  \/ \E c \in Callers : ReadRemoteCandidatesRecv(c)
  \/ ReadRemoteCandidatesApply \/ ReadRemoteCandidatesSendErr
  \/ ReadRemoteCandidatesSendOk \/ ReadRemoteCandidatesCtxDone
  \/ \E t \in TrackIds : OnTrackCtxDone(t)
  \/ DrainExit
  \/ NewCtxDone
  \/ \E c \in Callers : AddCandidatesCtxDone(c)
  \/ Close \/ PeerConnected \/ PeerDisconnected
  \/ \E t \in TrackIds : OnTrack(t)
  \/ NewCall
  \/ \E c \in Callers : AddCandidatesCall(c)

Spec == Init /\ [][Next]_vars

\* every goroutine that can take a step eventually takes one
FairSpec == Spec /\ WF_vars(ProgStep)


\* ---- the room: record, cleanup and its upload goroutines, the data channel
\* handlers of a publish session, and the sessions' track-start loops

sessionVars == <<sessVars, rejected, pcVars, newVars, candVars, trackVars, endVars>>

\* strings.ToLower
ToLower(str) ==
  [i \in 1..Len(str) |->
     CASE str[i] = "A" -> "a" [] str[i] = "B" -> "b" [] OTHER -> str[i]]

\* strings.TrimSpace
RECURSIVE TrimLeft(_)
TrimLeft(str) ==
  IF str # <<>> /\ Head(str) = " " THEN TrimLeft(Tail(str)) ELSE str

RECURSIVE TrimRight(_)
TrimRight(str) ==
  IF str # <<>> /\ str[Len(str)] = " "
  THEN TrimRight(SubSeq(str, 1, Len(str) - 1))
  ELSE str

TrimSpace(str) == TrimRight(TrimLeft(str))

\* strings.ReplaceAll for a one-character old and new
ReplaceAll(str, old, new) ==
  [i \in 1..Len(str) |-> IF str[i] = old THEN new ELSE str[i]]

\* the bucket name Room.record and Room.cleanup use
RecordBucket == ToLower(clubName)

\* the bucket name the OnClose handler uses
OnCloseBucket == ReplaceAll(TrimSpace(ToLower(clubName)), " ", "-")

\* an error value is the chain of error types from the value returned down
\* to its cause; nil is the empty chain
NilErr == <<>>

\* the dynamic type of an error value, which a type switch tests
ErrType(err) == IF err = NilErr THEN "nil" ELSE err[1]

\* the failure the error value reports
ErrCause(err) == IF err = NilErr THEN "nil" ELSE err[Len(err)]

\* s3Client.CreateBucket: the type switch on the error of the S3 call
CreateBucket(err) ==
  IF err = NilErr THEN NilErr
  ELSE CASE ErrType(err) = "BucketAlreadyOwnedByYou" -> NilErr
         [] ErrType(err) = "BucketAlreadyExists" -> NilErr
         [] OTHER -> err

\* what S3Client.CreateBucket returns: nil, one of the two error types of the
\* switch, one of them wrapped in the error of a failed operation, or
\* another error
S3CreateErrs ==
  {NilErr, <<"BucketAlreadyOwnedByYou">>, <<"BucketAlreadyExists">>,
   <<"OperationError", "BucketAlreadyOwnedByYou">>,
   <<"OperationError", "BucketAlreadyExists">>, <<"other">>}

\* the room as the Manager leaves it: some of the sessions are members, each
\* indexed by its secret
RoomInit ==
  /\ recording \in BOOLEAN
  /\ clubName \in ClubNames
  /\ members \in SUBSET RoomSessions
  /\ bySecret = members
  /\ streamers = {}
  /\ rclosed = [x \in RoomSessions |-> FALSE]
  /\ rwriters = [x \in RoomSessions |-> {}]
  /\ disk = {}
  /\ uploads = {}
  /\ upl = [f \in WriterFiles |-> "none"]
  /\ cl = "idle"
  /\ clCur = 0
  /\ clSeen = {}
  /\ fatal = FALSE
  /\ dc = "none"
  /\ meta = <<>>
  /\ msgLog = <<>>
  /\ recordCalls = 0
  /\ recordErr = <<>>
  /\ recordRet = <<>>
  /\ publish = TRUE
  /\ ctxDone = FALSE
  /\ rl = "start"
  /\ ret = NoRet
  /\ defers = <<>>
  /\ trackCount = 0
  /\ rejected = <<>>
  /\ pcNew = FALSE
  /\ pcClosed = FALSE
  /\ connected = FALSE
  /\ disconnected = FALSE
  /\ spc = FALSE
  /\ pcAssigns = 0
  /\ wuc = "none"
  /\ newc = [st |-> "idle", res |-> "none", code |-> 0]
  /\ resMsgs = <<>>
  /\ ac = [c \in Callers |-> [st |-> "idle", rem |-> 0, res |-> "none", at |-> "none"]]
  /\ rcst = "none"
  /\ rcCur = 0
  /\ applied = [c \in Callers |-> FALSE]
  /\ resSends = [c \in Callers |-> 0]
  /\ handlers = FALSE
  /\ otf = [t \in TrackIds |-> "none"]
  /\ tracks = 0
  /\ started = 0
  /\ writers = {}
  /\ ring = "none"
  /\ drain = "none"
  /\ pathCalls = [addOk |-> 0, remove |-> 0, startPub |-> 0, streamRemove |-> 0,
                  pause |-> 0]
  /\ closeCalls = 0
  /\ wgDone = FALSE

\* Room.join
Join(id) ==
  /\ ~fatal
  /\ cl = "idle"
  /\ id \notin streamers
  /\ streamers' = streamers \cup {id}
  /\ UNCHANGED <<sessionVars, recording, clubName, members, bySecret, rclosed,
                 rwriters, disk, uploads, upl, cl, clCur, clSeen, fatal, dc, meta,
                 msgLog, recordCalls, recordErr, recordRet>>

\* Room.record: CreateBucket, then the flag
Record ==
  /\ ~fatal
  /\ recordCalls < MaxRecordCalls
  /\ \E e \in S3CreateErrs :
       /\ recordErr' = e
       /\ IF CreateBucket(e) # NilErr
          THEN /\ recordRet' = CreateBucket(e)
               /\ UNCHANGED recording
          ELSE /\ recording' = TRUE
               /\ recordRet' = NilErr
  /\ recordCalls' = recordCalls + 1
  /\ UNCHANGED <<sessionVars, clubName, members, bySecret, streamers, rclosed,
                 rwriters, disk, uploads, upl, cl, clCur, clSeen, fatal, dc, meta,
                 msgLog>>

\* runPublish, track-start loop of session x of the room (a member, or one
\* cleanup has closed): the writer of one track is
\* created (its file with it) and put into s.writers.  The map is not locked:
\* an insertion while cleanup ranges over the same map is a concurrent map
\* write, which the runtime may stop the process for when the map was not
\* empty (an empty map is not ranged over: len(s.writers) > 0), and the new
\* entry may or may not be produced by the range loop.
RoomStartTrack(x, k) ==
  /\ ~fatal
  /\ x \in members \/ rclosed[x]
  /\ k \notin rwriters[x]
  /\ IF cl = "writers" /\ clCur = x
     THEN \/ /\ rwriters[x] # {}
             /\ fatal' = TRUE
             /\ UNCHANGED <<rwriters, disk, clSeen>>
          \/ /\ rwriters' = [rwriters EXCEPT ![x] = @ \cup {k}]
             /\ disk' = disk \cup {<<x, k>>}
             /\ clSeen' \in {clSeen, clSeen \cup {k}}
             /\ UNCHANGED fatal
     ELSE /\ rwriters' = [rwriters EXCEPT ![x] = @ \cup {k}]
          /\ disk' = disk \cup {<<x, k>>}
          /\ UNCHANGED <<fatal, clSeen>>
  /\ UNCHANGED <<sessionVars, recording, clubName, members, bySecret, streamers,
                 rclosed, uploads, upl, cl, clCur, dc, meta, msgLog, recordCalls,
                 recordErr, recordRet>>

\* Room.cleanup is called
CleanupCall ==
  /\ ~fatal
  /\ cl = "idle"
  /\ cl' = "sessions"
  /\ UNCHANGED <<sessionVars, recording, clubName, members, bySecret, streamers,
                 rclosed, rwriters, disk, uploads, upl, clCur, clSeen, fatal, dc,
                 meta, msgLog, recordCalls, recordErr, recordRet>>

\* for s := range r.sessions: the next session
CleanupNextSession(x) ==
  /\ ~fatal
  /\ cl = "sessions"
  /\ x \in members
  /\ cl' = "writers"
  /\ clCur' = x
  /\ clSeen' = {}
  /\ UNCHANGED <<sessionVars, recording, clubName, members, bySecret, streamers,
                 rclosed, rwriters, disk, uploads, upl, fatal, dc, meta, msgLog,
                 recordCalls, recordErr, recordRet>>

\* for fn := range s.writers: go func(filename) {...}(fn)
CleanupSpawn(k) ==
  /\ ~fatal
  /\ cl = "writers"
  /\ k \in rwriters[clCur] \ clSeen
  /\ clSeen' = clSeen \cup {k}
  /\ upl' = [upl EXCEPT ![<<clCur, k>>] = "spawned"]
  /\ UNCHANGED <<sessionVars, recording, clubName, members, bySecret, streamers,
                 rclosed, rwriters, disk, uploads, cl, clCur, fatal, dc, meta,
                 msgLog, recordCalls, recordErr, recordRet>>

\* the end of the loop body without delete(r.sessionsBySecret, s.secret)
CleanupCloseSession_keepsSecret ==
  /\ ~fatal
  /\ cl = "writers"
  /\ rwriters[clCur] \subseteq clSeen
  /\ members' = members \ {clCur}
  /\ rclosed' = [rclosed EXCEPT ![clCur] = TRUE]
  /\ cl' = "sessions"
  /\ clCur' = 0
  /\ clSeen' = {}
  /\ UNCHANGED <<sessionVars, recording, clubName, streamers, rwriters, disk,
                 uploads, upl, fatal, dc, meta, msgLog, recordCalls, recordErr,
                 recordRet, bySecret>>

\* delete(r.sessions, s); delete(r.sessionsBySecret, s.secret); s.close()
CleanupCloseSession ==
  /\ ~fatal
  /\ cl = "writers"
  /\ rwriters[clCur] \subseteq clSeen
  /\ members' = members \ {clCur}
  /\ bySecret' = bySecret \ {clCur}
  /\ rclosed' = [rclosed EXCEPT ![clCur] = TRUE]
  /\ cl' = "sessions"
  /\ clCur' = 0
  /\ clSeen' = {}
  /\ UNCHANGED <<sessionVars, recording, clubName, streamers, rwriters, disk,
                 uploads, upl, fatal, dc, meta, msgLog, recordCalls, recordErr,
                 recordRet>>

\* the loop clearing r.streamers, and return nil
CleanupReturn ==
  /\ ~fatal
  /\ cl = "sessions"
  /\ members = {}
  /\ streamers' = {}
  /\ cl' = "returned"
  /\ UNCHANGED <<sessionVars, recording, clubName, members, bySecret, rclosed,
                 rwriters, disk, uploads, upl, clCur, clSeen, fatal, dc, meta,
                 msgLog, recordCalls, recordErr, recordRet>>

\* an upload goroutine of cleanup: os.Open fails because the file is gone,
\* or UploadObject is called (it succeeds or fails: its error is dropped) and
\* the file is removed
UploadRun(f) ==
  /\ ~fatal
  /\ upl[f] = "spawned"
  /\ \/ /\ upl' = [upl EXCEPT ![f] = "missing"]
        /\ UNCHANGED uploads
     \/ /\ upl' = [upl EXCEPT ![f] = "done"]
        /\ uploads' = uploads \cup
             {[file |-> f, bucket |-> RecordBucket, by |-> "cleanup",
               rec |-> recording]}
  /\ disk' = disk \ {f}
  /\ UNCHANGED <<sessionVars, recording, clubName, members, bySecret, streamers,
                 rclosed, rwriters, cl, clCur, clSeen, fatal, dc, meta, msgLog,
                 recordCalls, recordErr, recordRet>>

\* dc.OnOpen: the metadata file is created and kept on the session
DcOnOpen ==
  /\ ~fatal
  /\ dc = "none"
  /\ dc' = "open"
  /\ disk' = disk \cup {MetadataFile}
  /\ UNCHANGED <<sessionVars, recording, clubName, members, bySecret, streamers,
                 rclosed, rwriters, uploads, upl, cl, clCur, clSeen, fatal, meta,
                 msgLog, recordCalls, recordErr, recordRet>>

\* dc.OnMessage without the test of room.recording
DcOnMessage_unconditional(data) ==
  /\ ~fatal
  /\ dc = "open"
  /\ Len(msgLog) < MaxMsgs
  /\ msgLog' = Append(msgLog, [data |-> data, rec |-> recording])
  /\ meta' = meta \o Append(data, 10)
  /\ UNCHANGED <<sessionVars, recording, clubName, members, bySecret, streamers,
                 rclosed, rwriters, disk, uploads, upl, cl, clCur, clSeen, fatal,
                 dc, recordCalls, recordErr, recordRet>>

\* dc.OnMessage
DcOnMessage(data) ==
  /\ ~fatal
  /\ dc = "open"
  /\ Len(msgLog) < MaxMsgs
  /\ msgLog' = Append(msgLog, [data |-> data, rec |-> recording])
  /\ IF recording
     THEN meta' = meta \o Append(data, 10)
     ELSE UNCHANGED meta
  /\ UNCHANGED <<sessionVars, recording, clubName, members, bySecret, streamers,
                 rclosed, rwriters, disk, uploads, upl, cl, clCur, clSeen, fatal,
                 dc, recordCalls, recordErr, recordRet>>

\* dc.OnClose
DcOnClose ==
  /\ ~fatal
  /\ dc = "open"
  /\ dc' = "closed"
  /\ IF ~recording
     THEN UNCHANGED uploads
     ELSE uploads' = uploads \cup
            {[file |-> MetadataFile, bucket |-> OnCloseBucket, by |-> "onclose",
              rec |-> recording]}
  /\ disk' = disk \ {MetadataFile}
  /\ UNCHANGED <<sessionVars, recording, clubName, members, bySecret, streamers,
                 rclosed, rwriters, upl, cl, clCur, clSeen, fatal, meta, msgLog,
                 recordCalls, recordErr, recordRet>>

\* the room with its sessions' track-start loops, cleanup and its uploads
RoomNext ==
  \/ \E id \in StreamIds : Join(id)
  \/ \E x \in RoomSessions, k \in TrackTypes : RoomStartTrack(x, k)
  \/ CleanupCall
  \/ \E x \in RoomSessions : CleanupNextSession(x)
  \/ \E k \in TrackTypes : CleanupSpawn(k)
  \/ CleanupCloseSession
  \/ CleanupReturn
  \/ \E f \in WriterFiles : UploadRun(f)

RoomSpec == RoomInit /\ [][RoomNext]_vars

\* the data channel of a publish session and the recording flag of its room
DataChannelNext ==
  \/ Record
  \/ DcOnOpen
  \/ \E data \in Payloads : DcOnMessage(data)
  \/ DcOnClose

DataChannelSpec == RoomInit /\ [][DataChannelNext]_vars

\* ---- properties

Outstanding(st) == st \in {"select", "wait"}

\* the run goroutine stands at a send statement on s.req.res
AtResSend ==
  \/ rl = "writeAnswer"
  \/ rl = "defers" /\ defers = <<>> /\ ret.code # 0

\* runInner has returned to run()
PastRespond == rl \in {"ctxCancel", "closeSession", "wgDone", "exited"}

\* new() returned by its own ctx.Done case
NewByCtx == newc.st = "done" /\ newc.res = "terminated" /\ newc.code = 500

\* C1: a session that received its request on chNew writes exactly one message
\* to s.req.res, the answer or one error with a non-zero status: every send
\* statement on s.req.res is reached with the caller waiting and nothing sent
\* before, and the caller is not left waiting once runInner has returned.
C1_ExactlyOneResponse ==
  /\ Len(resMsgs) <= 1
  /\ \A i \in 1..Len(resMsgs) :
       \/ resMsgs[i].kind = "answer" /\ resMsgs[i].code = 0
       \/ resMsgs[i].kind = "error" /\ resMsgs[i].code # 0
  /\ AtResSend => (newc.st = "wait" /\ resMsgs = <<>>)
  /\ newc.st = "wait" => (~PastRespond /\ ~crashed /\ resMsgs = <<>>)
  /\ (newc.st = "done" /\ ~NewByCtx) => Len(resMsgs) = 1
  /\ newc.st \in {"idle", "select"} \/ NewByCtx => resMsgs = <<>>

C1_Witness ==
  /\ rl = "exited"
  /\ Len(resMsgs) = 1
  /\ resMsgs[1].kind = "answer"
  /\ wuc = "deadline"

\* C2 as stated: from the answer until the context is cancelled, s.pc is set.
C2_PcSetSinceAnswer == (answered /\ ~ctxDone) => spc

\* C2 amended: after the answer, s.pc is set exactly from the assignment that
\* follows a nil return of webrtcWaitUntilConnected, and stays set from then
\* on, also after cancellation; before that, and when the wait fails, it is nil.
C2_PcSetSinceConnected == answered => (spc <=> (wuc = "nil" /\ rl # "setPC"))

C2_Witness == answered /\ spc /\ ctxDone /\ rl = "exited"

\* C3: s.pc is assigned at most once and only after webrtcWaitUntilConnected
\* returned nil; when it returned an error or was not reached, s.pc is nil.
C3_PcAssignedOnce ==
  /\ pcAssigns <= 1
  /\ pcAssigns = 1 => wuc = "nil"
  /\ wuc # "nil" => (~spc /\ pcAssigns = 0)

C3_Witness == pcAssigns = 1 /\ spc /\ wuc = "nil"

\* C4: no AddICECandidate call, and no running apply loop, before the answer
\* has been written to the response channel.
C4_AnswerBeforeCandidates ==
  (rcst # "none" \/ \E c \in Callers : applied[c] \/ ac[c].st = "wait")
    => answered

C4_Witness == \E c \in Callers : applied[c] /\ ac[c].at = "early"

\* C5: the apply loop executes at most one response write per request
\* envelope.
C5_AtMostOneResponse == \A c \in Callers : resSends[c] <= 1

\* C6: a call that arrives before the answer is received by the session only
\* once the apply loop runs; it returns success only when every one of its
\* candidates was passed to AddICECandidate, and it returns terminated
\* without any candidate applied otherwise (or the first candidate error).
C6_NoSilentLoss ==
  \A c \in Callers :
    ac[c].at = "early" =>
      /\ ac[c].st = "wait" => (rcst # "none" /\ rcCur = c)
      /\ ac[c].st = "done" => ac[c].res \in {"ok", "candidate error", "terminated"}
      /\ (ac[c].st = "done" /\ ac[c].res = "ok") => ac[c].rem = 0
      /\ (ac[c].st = "done" /\ ac[c].res = "candidate error") => applied[c]
      /\ (ac[c].st = "done" /\ ac[c].res = "terminated") => ~applied[c]

C6_Witness ==
  \E c \in Callers :
    /\ ac[c].at = "early"
    /\ ac[c].st = "done"
    /\ ac[c].res = "ok"
    /\ ac[c].rem = 0
    /\ applied[c]

\* C7: a call made after the context is cancelled never reaches the apply
\* loop: it returns terminated and none of its candidates is applied.
C7_LateCallTerminated ==
  \A c \in Callers :
    ac[c].at = "late" =>
      /\ ac[c].st \in {"select", "done"}
      /\ ac[c].st = "done" => ac[c].res = "terminated"
      /\ ~applied[c]

C7_Witness ==
  \E c \in Callers :
    ac[c].at = "late" /\ ac[c].st = "done" /\ ac[c].res = "terminated"

C9_ChildrenExitedAtWgDone ==
  wgDone =>
    /\ rcst \in {"none", "exited"}
    /\ \A t \in TrackIds : otf[t] # "blocked"
    /\ drain \in {"none", "exited"}

\* C10: no track.start call before webrtcWaitUntilConnected returned nil; when
\* it returned an error no track is started and the run goroutine is on its
\* way out.
C10_TrackStartAfterConnected ==
  /\ started > 0 => wuc = "nil"
  /\ wuc \in {"deadline", "terminated"} =>
       (started = 0 /\ (rl = "defers" \/ PastRespond))

C10_Witness == started = 2 /\ wuc = "nil" /\ rl = "final"

\* the Publishing state: the publisher is started and every gathered track is
\* started
Publishing ==
  /\ publish
  /\ rl \in {"startTracks", "final"}
  /\ pathCalls.startPub = 1
  /\ started = tracks

\* C11: a publish session with trackCount > 0 holds exactly trackCount
\* entries in s.writers if and only if it is in the Publishing state.
C11_WritersIffPublishing ==
  (publish /\ trackCount > 0) => (Cardinality(writers) = trackCount <=> Publishing)

\* C12: whenever webrtcGatherIncomingTracks returns, a success carries exactly
\* trackCount tracks (none when trackCount is 0), and the deadline error is
\* returned only with trackCount > 0 and fewer than trackCount arrivals.
C12_GatherResult ==
  [][(rl = "gatherTracks" /\ rl' # "gatherTracks") =>
       /\ rl' = "startPublisher" => tracks' = trackCount
       /\ (rl' = "defers" /\ ret'.err = "deadline exceeded")
            => (trackCount > 0 /\ tracks < trackCount)
       /\ rl' \in {"startPublisher", "defers"}]_vars

\* number of descriptors of media type x in a media list
NumOf(medias, x) == Cardinality({i \in 1..Len(medias) : medias[i] = x})

\* a media list webrtcTrackCount has to refuse
Unsupported(medias) ==
  \/ NumOf(medias, "video") > 1
  \/ NumOf(medias, "audio") > 1
  \/ NumOf(medias, "application") > 1
  \/ \E i \in 1..Len(medias) : medias[i] \notin {"video", "audio", "application"}

\* C13: webrtcTrackCount returns its error exactly for a list with a second
\* video, audio or application section or a section of another type, and
\* otherwise the number of video and audio sections; runPublish refuses
\* exactly the lists it returns the error for and goes on with its count.
C13_TrackCount ==
  /\ rl = "trackCount" =>
       \A medias \in Offers :
         webrtcTrackCount(medias) =
           IF Unsupported(medias) THEN -1
           ELSE NumOf(medias, "video") + NumOf(medias, "audio")
  /\ rejected # <<>> => (Unsupported(rejected) /\ webrtcTrackCount(rejected) = -1)
  /\ trackCount \in 0..2

C13_Witness ==
  /\ rejected = <<"application", "application">>
  /\ ret = [code |-> 400, err |-> "sdp"]

\* C14: a publish offer with two video sections, or with a section of an
\* unsupported type, is refused by webrtcTrackCount; the request is then
\* answered with status 400 and no answer SDP is ever emitted for it.
C14_BadOfferGets400 ==
  /\ rl = "trackCount" =>
       \A medias \in Offers :
         (\/ NumOf(medias, "video") >= 2
          \/ \E i \in 1..Len(medias) :
               medias[i] \notin {"video", "audio", "application"})
           => webrtcTrackCount(medias) < 0
  /\ rejected # <<>> =>
       /\ ~answered
       /\ rl # "writeAnswer"
       /\ rl = "defers" => (ret = [code |-> 400, err |-> "sdp"] /\ newc.st = "wait")
       /\ (rl = "defers" \/ PastRespond)
       /\ PastRespond =>
            /\ resMsgs = <<[kind |-> "error", code |-> 400, err |-> "sdp"]>>
            /\ newc = [st |-> "done", res |-> "sdp", code |-> 400]

C14_Witness ==
  /\ rejected = <<"video", "video">>
  /\ rl = "exited"
  /\ resMsgs = <<[kind |-> "error", code |-> 400, err |-> "sdp"]>>

\* status the session has to answer a Path broker error with
BrokerStatus(e) ==
  IF e = "auth" THEN 401
  ELSE IF e = "no one is publishing" /\ ~publish THEN 404
  ELSE 400

\* C15: a Path broker error is answered with 401 (authentication, and only
\* after the pause), 404 (read role, "no one is publishing") or 400 (any
\* other); the response is not written before the pause has elapsed, no
\* removePublisher / removeReader is registered and no peer connection is
\* created.
C15_BrokerErrorStatus ==
  /\ rl = "authPause" =>
       /\ resMsgs = <<>> /\ newc.st = "wait" /\ pathCalls.pause = 0
       /\ ~pcNew /\ defers = <<>> /\ pathCalls.addOk = 0
  /\ ret.err \in BrokerErrs =>
       /\ ret.code = BrokerStatus(ret.err)
       /\ ret.err = "auth" => pathCalls.pause = 1
       /\ resMsgs = <<>> /\ newc.st = "wait"
       /\ ~pcNew /\ defers = <<>> /\ pathCalls.addOk = 0 /\ pathCalls.remove = 0
  /\ \A i \in 1..Len(resMsgs) :
       resMsgs[i].err \in BrokerErrs =>
         /\ resMsgs[i].kind = "error"
         /\ resMsgs[i].code = BrokerStatus(resMsgs[i].err)
         /\ resMsgs[i].err = "auth" => pathCalls.pause = 1
         /\ ~pcNew /\ defers = <<>> /\ pathCalls.addOk = 0 /\ pathCalls.remove = 0
  /\ pathCalls.pause = 1 =>
       (ret.err = "auth" \/ \E i \in 1..Len(resMsgs) : resMsgs[i].err = "auth")

C15_Witness ==
  /\ rl = "exited"
  /\ resMsgs = <<[kind |-> "error", code |-> 401, err |-> "auth"]>>
  /\ pathCalls.pause = 1
  /\ ~pcNew

\* the run goroutine has left run(), by its return or by a panic unwinding it
RunLoopExited == rl \in {"exited", "panic"}

\* C20: when the run loop has exited, by any path, the context is cancelled
\* and parent.closeSession was called exactly once (never more than once);
\* and once the peer disconnects or the context is cancelled the session
\* eventually gets there.
C20_ExitClosesSession ==
  /\ [](RunLoopExited => (ctxDone /\ closeCalls = 1))
  /\ [](closeCalls <= 1)
  /\ (disconnected \/ ctxDone) ~> (rl = "exited" /\ closeCalls = 1)


\* C16: while the room's recording flag is false no captured file of its
\* sessions is uploaded: every UploadObject call, of the OnClose handler or
\* of a goroutine of Room.cleanup, is made with the flag true.
C16_NoUploadWhileNotRecording == \A u \in uploads : u.rec

\* the bytes the handled messages put into the metadata file: the payload and
\* one byte 10 for each message handled with the flag true
RECURSIVE MetaOf(_)
MetaOf(log) ==
  IF log = <<>> THEN <<>>
  ELSE LET h == log[Len(log)]
           front == SubSeq(log, 1, Len(log) - 1)
       IN IF h.rec THEN MetaOf(front) \o h.data \o <<10>> ELSE MetaOf(front)

MetadataUploaded == \E u \in uploads : u.file = MetadataFile

\* C17: for the data-channel events OnOpen, OnMessage*, OnClose interleaved
\* with Room.record: the metadata file holds, for each message handled with
\* the recording flag true, its payload followed by one byte 10, and nothing
\* for the others; it is on disk exactly while the channel is open; it is
\* uploaded by OnClose iff the flag is true at OnClose, never before, and the
\* local file is removed by OnClose in both cases.
C17_MetadataCapture ==
  /\ [](meta = MetaOf(msgLog))
  /\ []((MetadataFile \in disk) <=> (dc = "open"))
  /\ [](dc # "closed" => ~MetadataUploaded)
  /\ [][(dc = "open" /\ dc' = "closed") =>
          /\ MetadataUploaded' <=> recording
          /\ MetadataFile \notin disk']_vars
  /\ [][dc = "closed" => (MetadataUploaded' <=> MetadataUploaded)]_vars

\* the flag was set between two messages and the channel closed with it true
C17_Witness ==
  /\ dc = "closed"
  /\ Len(msgLog) = 2
  /\ ~msgLog[1].rec
  /\ msgLog[2].rec
  /\ msgLog[1].data # <<>>
  /\ meta = msgLog[2].data \o <<10>>
  /\ MetadataUploaded
  /\ MetadataFile \notin disk

\* C18: after Room.cleanup has returned the sessions set, the
\* sessionsBySecret index and the streamers map are empty; a session leaves
\* the set only closed, so every member has had close() called; and once the
\* range over a session's writers is over, its removal and close are enabled
\* whatever the uploads spawned so far are doing (pending, done after a
\* success or a failure, or stopped on a missing file).
C18_CleanupEmptiesRoom ==
  /\ [](cl = "returned" =>
          /\ members = {}
          /\ bySecret = {}
          /\ streamers = {})
  /\ [][/\ members' \subseteq members
        /\ \A x \in members \ members' : rclosed'[x] /\ x \notin bySecret']_vars
  /\ []((~fatal /\ cl = "writers" /\ rwriters[clCur] \subseteq clSeen)
          => ENABLED CleanupCloseSession)

\* cleanup has returned with every session of the room closed, while one
\* upload has not run yet, one found its file missing and one has called
\* UploadObject
C18_Witness ==
  /\ cl = "returned"
  /\ \A x \in RoomSessions : rclosed[x]
  /\ \E f \in WriterFiles : upl[f] = "spawned"
  /\ \E f \in WriterFiles : upl[f] = "missing"
  /\ \E f \in WriterFiles : upl[f] = "done"

Tolerated == {"nil", "BucketAlreadyOwnedByYou", "BucketAlreadyExists"}

\* C19: a call of Room.record whose bucket creation succeeds, or fails with
\* "already owned by you" or "already exists", sets the recording flag and
\* returns nil; a call whose bucket creation fails for any other cause
\* returns that error and leaves the flag as it was.
C19_RecordResult ==
  [][recordCalls' = recordCalls + 1 =>
       IF ErrCause(recordErr') \in Tolerated
       THEN recording' /\ recordRet' = NilErr
       ELSE recordRet' = recordErr' /\ recording' = recording]_vars

\* the run loop between its first select and its exit without having taken
\* the request
TerminatedPath == rl \in {"start", "ctxCancel", "closeSession", "wgDone", "exited"}

\* C21: a session whose constructor cancelled the context (the roomID did
\* not parse) leaves the first select of its run loop by <-s.ctx.Done(): it
\* never calls the Path broker, never creates a peer connection, no response
\* is sent on req.res, a new() call on it can only return "terminated" with
\* status 500, and the run loop exits.
C21_BadRoomIDTerminates ==
  (ctxDone /\ rl = "start") =>
    /\ [](/\ TerminatedPath
          /\ pathCalls.addOk = 0 /\ pathCalls.pause = 0 /\ pathCalls.remove = 0
          /\ ~pcNew
          /\ resMsgs = <<>>
          /\ newc.st # "wait"
          /\ newc.st = "done" => (newc.res = "terminated" /\ newc.code = 500))
    /\ <>(rl = "exited")
    /\ [](newc.st = "select" => <>(newc.st = "done"))

\* the run loop has exited by the terminated path and a new() call made on
\* the session has returned "terminated"
C21_Witness ==
  /\ rl = "exited"
  /\ closeCalls = 1
  /\ pathCalls.addOk = 0
  /\ ~pcNew
  /\ newc.st = "done"
  /\ newc.res = "terminated"
  /\ newc.code = 500

\* C22: accesses to a session's writers map are serialized: while
\* Room.cleanup ranges over the writers of a session, the track-start loop of
\* that session puts no writer into the map, and the runtime never meets a
\* map write concurrent with the iteration.
C22_WritersSerialized ==
  /\ [](~fatal)
  /\ [][cl = "writers" => rwriters'[clCur] = rwriters[clCur]]_vars

\* C23: every upload, the metadata upload of OnClose and the codec-file
\* uploads of Room.cleanup, goes to the bucket named by the club name
\* trimmed, in lower case, with each space replaced by a dash, and that is
\* the bucket Room.record creates, for every club name.
C23_UploadBucket ==
  LET slug == ReplaceAll(ToLower(TrimSpace(clubName)), " ", "-")
  IN \A u \in uploads : u.bucket = slug /\ u.bucket = RecordBucket

\* C24: removePublisher / removeReader is never called more often than
\* addPublisher / addReader succeeded (never when it failed); it is called
\* after the peer connection, if one was created, has been closed; when the
\* session is handed to the Manager by closeSession, and when the run loop is
\* over by any path, it has been called exactly once for a successful add.
C24_TeardownPairing ==
  /\ [](pathCalls.remove <= pathCalls.addOk /\ pathCalls.addOk <= 1)
  /\ []((closeCalls > 0 \/ RunLoopExited) => pathCalls.remove = pathCalls.addOk)
  /\ [][pathCalls'.remove # pathCalls.remove =>
          /\ pathCalls'.remove = pathCalls.remove + 1
          /\ pcNew => pcClosed
          /\ closeCalls = 0]_vars

\* a session that connected and then left: the peer connection was closed,
\* the path was released once and the session handed to the Manager
C24_Witness ==
  /\ rl = "exited"
  /\ pathCalls.addOk = 1
  /\ pathCalls.remove = 1
  /\ pcNew /\ pcClosed
  /\ connected
  /\ closeCalls = 1

====
